---- MODULE Spec2Model ----
(***************************************************************************)
(* A model of the 2D graphics toolkit of src/: the two line clippers       *)
(* (clipping.py), the rasterizers (rasterization.py), the transformations  *)
(* (transformation2d.py) and the scene kept by CartesianPlane (main.py).   *)
(*                                                                         *)
(* Numbers.  The program computes with Python ints and floats.  A float is *)
(* an IEEE binary64 value, and every finite binary64 value (and every int  *)
(* the program meets) is a dyadic rational s * m * 2^e.  The model keeps   *)
(* exactly that: a number is a record [s, m, e] with sign s, an odd        *)
(* magnitude m held as a little-endian sequence of base-2^15 limbs (TLC's  *)
(* integers are 32 bits wide) and an exponent e.  Every arithmetic         *)
(* operation computes the exact result and rounds it to MantBits           *)
(* significant bits, ties to even, as the hardware does.  Values stay far  *)
(* from the exponent range's ends, so overflow, subnormals, infinities and *)
(* NaN do not arise; the sign of zero is not kept (-0.0 == 0.0 in Python). *)
(***************************************************************************)
EXTENDS Integers, Sequences, FiniteSets, TLC

\* ------------------------------------------------------------- magnitudes
\* Natural numbers of any size: sequences of limbs, least significant first,
\* no leading zero limb; <<>> is 0.

Base == 2^15

RECURSIVE NatBitLen(_)
NatBitLen(n) == IF n = 0 THEN 0 ELSE 1 + NatBitLen(n \div 2)

\* the bits of a limb
LimbBits == NatBitLen(Base) - 1

RECURSIVE BTrim(_)
BTrim(a) ==
    IF Len(a) = 0 THEN a
    ELSE IF a[Len(a)] = 0 THEN BTrim(SubSeq(a, 1, Len(a) - 1)) ELSE a

RECURSIVE BFromNat(_)
BFromNat(n) == IF n = 0 THEN <<>> ELSE <<n % Base>> \o BFromNat(n \div Base)

RECURSIVE BToNatFrom(_, _)
BToNatFrom(a, i) == IF i > Len(a) THEN 0 ELSE a[i] + Base * BToNatFrom(a, i + 1)

\* Only for magnitudes known to fit TLC's integers (pixel coordinates, counts).
BToNat(a) == BToNatFrom(a, 1)

Limb(a, i) == IF i <= Len(a) THEN a[i] ELSE 0

RECURSIVE BAddFrom(_, _, _, _)
BAddFrom(a, b, i, c) ==
    IF i > Len(a) /\ i > Len(b) THEN (IF c = 0 THEN <<>> ELSE <<c>>)
    ELSE LET t == Limb(a, i) + Limb(b, i) + c
         IN  <<t % Base>> \o BAddFrom(a, b, i + 1, t \div Base)

BAdd(a, b) == BAddFrom(a, b, 1, 0)

RECURSIVE BSubFrom(_, _, _, _)
BSubFrom(a, b, i, br) ==
    IF i > Len(a) THEN <<>>
    ELSE LET t == Limb(a, i) - Limb(b, i) - br
         IN  IF t < 0 THEN <<t + Base>> \o BSubFrom(a, b, i + 1, 1)
                      ELSE <<t>> \o BSubFrom(a, b, i + 1, 0)

\* a - b for a >= b
BSub(a, b) == BTrim(BSubFrom(a, b, 1, 0))

RECURSIVE BCmpFrom(_, _, _)
BCmpFrom(a, b, i) ==
    IF i = 0 THEN 0
    ELSE IF a[i] > b[i] THEN 1
    ELSE IF a[i] < b[i] THEN -1
    ELSE BCmpFrom(a, b, i - 1)

\* -1, 0 or 1 as a < b, a = b, a > b
BCmp(a, b) ==
    IF Len(a) > Len(b) THEN 1
    ELSE IF Len(a) < Len(b) THEN -1
    ELSE BCmpFrom(a, b, Len(a))

RECURSIVE BMulSmallFrom(_, _, _, _)
BMulSmallFrom(a, k, i, c) ==
    IF i > Len(a) THEN (IF c = 0 THEN <<>> ELSE <<c>>)
    ELSE LET t == a[i] * k + c
         IN  <<t % Base>> \o BMulSmallFrom(a, k, i + 1, t \div Base)

\* a * k for 0 <= k <= Base
BMulSmall(a, k) == IF k = 0 THEN <<>> ELSE BMulSmallFrom(a, k, 1, 0)

BShiftLimbs(a, n) == IF Len(a) = 0 THEN a ELSE [i \in 1..n |-> 0] \o a

RECURSIVE BMulFrom(_, _, _)
BMulFrom(a, b, j) ==
    IF j > Len(b) THEN <<>>
    ELSE BAdd(BShiftLimbs(BMulSmall(a, b[j]), j - 1), BMulFrom(a, b, j + 1))

BMul(a, b) == BMulFrom(a, b, 1)

RECURSIVE BDivSmallFrom(_, _, _, _, _)
\* short division from limb i of a down; q holds the quotient's limbs so far
BDivSmallFrom(a, k, i, rem, q) ==
    IF i = 0 THEN [q |-> BTrim(q), r |-> rem]
    ELSE IF rem >= 0 /\ Len(q) >= 0
         THEN BDivSmallFrom(a, k, i - 1, (rem * Base + a[i]) % k,
                            <<(rem * Base + a[i]) \div k>> \o q)
         ELSE [q |-> q, r |-> rem]

\* quotient and remainder of a by k, 0 < k <= Base
BDivSmall(a, k) == BDivSmallFrom(a, k, Len(a), 0, <<>>)

\* a * 2^n
BShl(a, n) == BShiftLimbs(BMulSmall(a, 2^(n % LimbBits)), n \div LimbBits)

\* floor(a / 2^n)
BShr(a, n) ==
    LET q == n \div LimbBits
    IN  IF q >= Len(a) THEN <<>>
        ELSE BDivSmall(SubSeq(a, q + 1, Len(a)), 2^(n % LimbBits)).q

BBitLen(a) == IF Len(a) = 0 THEN 0 ELSE (Len(a) - 1) * LimbBits + NatBitLen(a[Len(a)])

RECURSIVE NatTrailingZeros(_)
NatTrailingZeros(n) == IF n % 2 = 1 THEN 0 ELSE 1 + NatTrailingZeros(n \div 2)

RECURSIVE BTrailingZerosFrom(_, _)
BTrailingZerosFrom(a, i) ==
    IF a[i] = 0 THEN LimbBits + BTrailingZerosFrom(a, i + 1)
    ELSE NatTrailingZeros(a[i])

\* the number of trailing zero bits of a > 0
BTrailingZeros(a) == BTrailingZerosFrom(a, 1)

\* bit n (0 = least significant) of a
BBit(a, n) == (Limb(a, n \div LimbBits + 1) \div 2^(n % LimbBits)) % 2

\* a mod 2^n = 0
BLowZero(a, n) == Len(a) = 0 \/ BTrailingZeros(a) >= n

RECURSIVE BQuotLimb(_, _, _, _)
\* the largest q in lo..hi with q * d <= r (lo * d <= r is given)
BQuotLimb(r, d, lo, hi) ==
    IF lo = hi THEN lo
    ELSE LET mid == (lo + hi + 1) \div 2
         IN  IF BCmp(BMulSmall(d, mid), r) <= 0 THEN BQuotLimb(r, d, mid, hi)
                                                ELSE BQuotLimb(r, d, lo, mid - 1)

RECURSIVE BDivLimbs(_, _, _, _, _), BDivLimb(_, _, _, _, _), BDivLimbPut(_, _, _, _, _, _)
\* long division, one limb of the quotient at a time, from limb i of a down;
\* q holds the quotient's limbs found so far
BDivLimbs(a, d, i, rem, q) ==
    IF i = 0 THEN [q |-> BTrim(q), r |-> rem]
    ELSE BDivLimb(a, d, i, BTrim(<<a[i]>> \o rem), q)

\* one step of it: r1 is the running remainder with limb i brought down
BDivLimb(a, d, i, r1, q) ==
    IF Len(r1) >= 0 /\ Len(q) >= 0
    THEN BDivLimbPut(a, d, i, r1, q, BQuotLimb(r1, d, 0, Base - 1))
    ELSE [q |-> q, r |-> r1]

BDivLimbPut(a, d, i, r1, q, ql) ==
    IF ql >= 0 THEN BDivLimbs(a, d, i - 1, BSub(r1, BMulSmall(d, ql)), <<ql>> \o q)
               ELSE [q |-> q, r |-> r1]

BDivModSmall(x) == [q |-> x.q, r |-> BFromNat(x.r)]

\* quotient and remainder of a by d > 0
BDivMod(a, d) ==
    IF Len(d) = 1 THEN BDivModSmall(BDivSmall(a, d[1]))
    ELSE BDivLimbs(a, d, Len(a), <<>>, <<>>)

RECURSIVE BSqrtNewton(_, _), BSqrtNext(_, _, _)
\* Newton's iteration from a start x >= sqrt(a): it descends to floor(sqrt(a))
BSqrtNewton(a, x) == BSqrtNext(a, x, BShr(BAdd(x, BDivMod(a, x).q), 1))

BSqrtNext(a, x, y) == IF BCmp(y, x) >= 0 THEN x ELSE BSqrtNewton(a, y)

\* floor(sqrt(a))
BSqrt(a) ==
    IF Len(a) = 0 THEN a ELSE BSqrtNewton(a, BShl(<<1>>, (BBitLen(a) + 1) \div 2))

\* ---------------------------------------------------------------- numbers
\* A Python number: s * m * 2^e with s the sign (0 for zero) and m odd.

MantBits == 53

Zero == [s |-> 0, m |-> <<>>, e |-> 0]

NormBy(s, m, e, z) == [s |-> s, m |-> BShr(m, z), e |-> e + z]

\* The canonical form of s * m * 2^e.
Norm(s, m, e) == IF Len(m) = 0 THEN Zero ELSE NormBy(s, m, e, BTrailingZeros(m))

\* x without its k low bits, q the bits kept: up when the dropped part is over
\* half a unit, or exactly half and q is odd
RoundDrop(x, k, q) ==
    Norm(x.s,
         IF BBit(x.m, k - 1) = 1 /\ (~BLowZero(x.m, k - 1) \/ BBit(q, 0) = 1)
         THEN BAdd(q, <<1>>) ELSE q,
         x.e + k)

\* x rounded to MantBits significant bits, ties to even (binary64's rounding).
RoundNearestEven(x) ==
    IF BBitLen(x.m) <= MantBits THEN x
    ELSE RoundDrop(x, BBitLen(x.m) - MantBits, BShr(x.m, BBitLen(x.m) - MantBits))

\* The int i.
FromInt(i) ==
    IF i = 0 THEN Zero
    ELSE IF i > 0 THEN Norm(1, BFromNat(i), 0)
    ELSE Norm(-1, BFromNat(-i), 0)

\* The number n / 2^k, n an int (a float literal such as 0.5).
Dyadic(n, k) ==
    IF n = 0 THEN Zero
    ELSE IF n > 0 THEN Norm(1, BFromNat(n), -k)
    ELSE Norm(-1, BFromNat(-n), -k)

Neg(a) == [a EXCEPT !.s = -a.s]

Abs(a) == [a EXCEPT !.s = IF a.s = 0 THEN 0 ELSE 1]

\* sa * ma * 2^e + sb * mb * 2^e, c the comparison of ma with mb
AddSigned(sa, ma, sb, mb, e, c) ==
    Norm(IF sa = sb \/ c > 0 THEN sa ELSE sb,
         IF sa = sb THEN BAdd(ma, mb)
         ELSE BSub(IF c > 0 THEN ma ELSE mb, IF c > 0 THEN mb ELSE ma),
         e)

AddAligned(sa, ma, sb, mb, e) == AddSigned(sa, ma, sb, mb, e, BCmp(ma, mb))

AddExact(a, b) ==
    IF a.s = 0 THEN b
    ELSE IF b.s = 0 THEN a
    ELSE AddAligned(a.s, BShl(a.m, IF a.e > b.e THEN a.e - b.e ELSE 0),
                    b.s, BShl(b.m, IF b.e > a.e THEN b.e - a.e ELSE 0),
                    IF a.e < b.e THEN a.e ELSE b.e)

\* a + b, a - b, a * b as Python computes them
Add(a, b) == RoundNearestEven(AddExact(a, b))

Sub(a, b) == RoundNearestEven(AddExact(a, Neg(b)))

Mul(a, b) ==
    IF a.s = 0 \/ b.s = 0 THEN Zero
    ELSE RoundNearestEven([s |-> a.s * b.s, m |-> BMul(a.m, b.m), e |-> a.e + b.e])

DivRound(s, d, e) ==
    RoundNearestEven(IF Len(d.r) = 0 THEN Norm(s, d.q, e)
                     ELSE [s |-> s, m |-> BAdd(BMulSmall(d.q, 2), <<1>>), e |-> e - 1])

DivBy(a, b, k) == DivRound(a.s * b.s, BDivMod(BShl(a.m, k), b.m), a.e - b.e - k)

\* a / b for b # 0: the exact quotient to MantBits + 2 bits and a sticky bit,
\* rounded.
Div(a, b) ==
    IF a.s = 0 THEN Zero
    ELSE DivBy(a, b, IF MantBits + 2 + BBitLen(b.m) - BBitLen(a.m) > 0
                     THEN MantBits + 2 + BBitLen(b.m) - BBitLen(a.m) ELSE 0)

SqrtRound(m2, r, e) ==
    RoundNearestEven(IF BCmp(BMul(r, r), m2) = 0 THEN Norm(1, r, e)
                     ELSE [s |-> 1, m |-> BAdd(BMulSmall(r, 2), <<1>>), e |-> e - 1])

SqrtOf(m2, e) == SqrtRound(m2, BSqrt(m2), e)

SqrtBy(m1, e1, k) == SqrtOf(BShl(m1, 2 * k), e1 \div 2 - k)

\* sqrt(m1 * 2^e1), e1 even
SqrtEven(m1, e1) ==
    SqrtBy(m1, e1, IF 2 * (MantBits + 2) - BBitLen(m1) > 0
                   THEN (2 * (MantBits + 2) - BBitLen(m1) + 1) \div 2 ELSE 0)

\* math.sqrt(a) for a >= 0, correctly rounded
Sqrt(a) ==
    IF a.s = 0 THEN Zero
    ELSE SqrtEven(IF a.e % 2 = 1 THEN BMulSmall(a.m, 2) ELSE a.m,
                  IF a.e % 2 = 1 THEN a.e - 1 ELSE a.e)

\* comparisons
Sign(a) == a.s

\* the position of the leading bit of a # 0
TopBit(a) == BBitLen(a.m) + a.e

\* -1, 0 or 1 as |a| < |b|, |a| = |b|, |a| > |b|, for a and b not 0
CmpAbs(a, b) ==
    IF TopBit(a) # TopBit(b) THEN (IF TopBit(a) < TopBit(b) THEN -1 ELSE 1)
    ELSE BCmp(BShl(a.m, IF a.e > b.e THEN a.e - b.e ELSE 0),
              BShl(b.m, IF b.e > a.e THEN b.e - a.e ELSE 0))

Lt(a, b) ==
    IF a.s # b.s THEN a.s < b.s
    ELSE IF a.s = 0 THEN FALSE
    ELSE a.s * CmpAbs(a, b) < 0

Le(a, b) == a = b \/ Lt(a, b)

Gt(a, b) == Lt(b, a)

IsInt(a) == a.e >= 0

\* The int value of a whole number that fits TLC's integers.
ToInt(a) == a.s * BToNat(BShl(a.m, a.e))

\* q is the whole part of |a|
PyRoundAt(a, q) ==
    IF BBit(a.m, -a.e - 1) = 1 /\ (-a.e > 1 \/ q % 2 = 1) THEN a.s * (q + 1)
    ELSE a.s * q

\* round(a): the nearest int, ties to the even one.  m is odd, so a tie is
\* exactly the case e = -1.
PyRound(a) == IF a.e >= 0 THEN ToInt(a) ELSE PyRoundAt(a, BToNat(BShr(a.m, -a.e)))

\* --------------------------------------------------------------- clipping
\* A point is <<x, y>>, a line <<p1, p2>>, a window <<x_min, y_min, x_max, y_max>>
\* as the clippers receive it.

INSIDE == 0
LEFT == 1
RIGHT == 2
BOTTOM == 4
TOP == 8

None == <<>>

\* code & bit # 0, for one of the four bits
HasBit(code, bit) == (code \div bit) % 2 = 1

\* code1 & code2
BitAnd(code1, code2) ==
    (IF HasBit(code1, LEFT) /\ HasBit(code2, LEFT) THEN LEFT ELSE 0)
    + (IF HasBit(code1, RIGHT) /\ HasBit(code2, RIGHT) THEN RIGHT ELSE 0)
    + (IF HasBit(code1, BOTTOM) /\ HasBit(code2, BOTTOM) THEN BOTTOM ELSE 0)
    + (IF HasBit(code1, TOP) /\ HasBit(code2, TOP) THEN TOP ELSE 0)

\* region_code with the boundary counted as outside (<= and >=)
region_code_closed(x, y, x_min, x_max, y_min, y_max) ==
    (IF Le(x, x_min) THEN LEFT ELSE IF Le(x_max, x) THEN RIGHT ELSE INSIDE)
    + (IF Le(y, y_min) THEN BOTTOM ELSE IF Le(y_max, y) THEN TOP ELSE INSIDE)

region_code(x, y, x_min, x_max, y_min, y_max) ==
    (IF Lt(x, x_min) THEN LEFT ELSE IF Gt(x, x_max) THEN RIGHT ELSE INSIDE)
    + (IF Lt(y, y_min) THEN BOTTOM ELSE IF Gt(y, y_max) THEN TOP ELSE INSIDE)

\* x_min <= x <= x_max and y_min <= y <= y_max
InWindow(x, y, w) == Le(w[1], x) /\ Le(x, w[3]) /\ Le(w[2], y) /\ Le(y, w[4])

\* Cohen-Sutherland before the loop: the locals of clipping_cohen_sutherland.
\* pc is "loop" while the while-loop runs, "done" after a break, "error" after
\* a ZeroDivisionError.
CSStart(line, w) ==
    [x_initial |-> line[1][1], y_initial |-> line[1][2],
     x_final |-> line[2][1], y_final |-> line[2][2],
     code1 |-> region_code(line[1][1], line[1][2], w[1], w[3], w[2], w[4]),
     code2 |-> region_code(line[2][1], line[2][2], w[1], w[3], w[2], w[4]),
     accept |-> FALSE, line_accepted |-> FALSE, pc |-> "loop"]

\* The boundary the out-code selects, tested in the order TOP, BOTTOM, RIGHT,
\* LEFT.
CSBoundary(code_out) ==
    IF HasBit(code_out, TOP) THEN TOP
    ELSE IF HasBit(code_out, BOTTOM) THEN BOTTOM
    ELSE IF HasBit(code_out, RIGHT) THEN RIGHT
    ELSE IF HasBit(code_out, LEFT) THEN LEFT
    ELSE INSIDE

\* TOP and BOTTOM cut at a y, RIGHT and LEFT at an x.
CSHorizontal(b) == b = TOP \/ b = BOTTOM

\* The x or y of the boundary.
CSLevel(b, w) ==
    IF b = TOP THEN w[4] ELSE IF b = BOTTOM THEN w[2] ELSE IF b = RIGHT THEN w[3] ELSE w[1]

\* The intersection formula: u_initial + du * (level - v_initial) / dv.
CSCross(u_initial, du, level, v_initial, dv) ==
    Add(u_initial, Div(Mul(du, Sub(level, v_initial)), dv))

\* The intersection point x, y of the line with boundary b; dx and dy are
\* x_final - x_initial and y_final - y_initial.
CSIntersection(c, b, w, dx, dy) ==
    IF CSHorizontal(b)
    THEN <<CSCross(c.x_initial, dx, CSLevel(b, w), c.y_initial, dy), CSLevel(b, w)>>
    ELSE <<CSLevel(b, w), CSCross(c.y_initial, dy, CSLevel(b, w), c.x_initial, dx)>>

\* The out-code the iteration works on, and the endpoint it replaces:
\* 1 (initial) or 2 (final).
CSCodeOut(c) == IF c.code1 # 0 THEN c.code1 ELSE c.code2

CSReplaced(c) == IF CSCodeOut(c) = c.code1 THEN 1 ELSE 2

\* The flag line_accepted, set when either endpoint of d is in the window.
CSMark(d, w) ==
    IF InWindow(d.x_initial, d.y_initial, w) \/ InWindow(d.x_final, d.y_final, w)
    THEN [d EXCEPT !.line_accepted = TRUE]
    ELSE d

\* The replaced endpoint becomes p, with the region code `code` of p.
CSMove(c, w, p, code) ==
    CSMark(IF CSReplaced(c) = 1
           THEN [c EXCEPT !.x_initial = p[1], !.y_initial = p[2], !.code1 = code]
           ELSE [c EXCEPT !.x_final = p[1], !.y_final = p[2], !.code2 = code],
           w)

\* the replaced endpoint keeps its old region code
CSMoveToStale(c, w, p) == CSMove(c, w, p, CSCodeOut(c))

CSMoveTo(c, w, p) == CSMove(c, w, p, region_code(p[1], p[2], w[1], w[3], w[2], w[4]))

\* The else-branch of the loop's body; a zero divisor raises ZeroDivisionError.
CSClip(c, w, b, dx, dy) ==
    IF (IF CSHorizontal(b) THEN dy ELSE dx) = Zero
    THEN [c EXCEPT !.pc = "error"]
    ELSE CSMoveTo(c, w, CSIntersection(c, b, w, dx, dy))

\* One pass that leaves the loop only when both codes are 0.
CSStepNoReject(c, w) ==
    IF c.code1 = 0 /\ c.code2 = 0
    THEN [c EXCEPT !.accept = TRUE, !.pc = "done"]
    ELSE CSClip(c, w, CSBoundary(CSCodeOut(c)),
                Sub(c.x_final, c.x_initial), Sub(c.y_final, c.y_initial))

\* One pass through the body of the while-loop.
CSStep(c, w) ==
    IF (c.code1 = 0 /\ c.code2 = 0) \/ BitAnd(c.code1, c.code2) # 0
    THEN [c EXCEPT !.accept = TRUE, !.pc = "done"]
    ELSE IF BitAnd(c.code1, c.code2) # 0
    THEN [c EXCEPT !.pc = "done"]
    ELSE CSClip(c, w, CSBoundary(CSCodeOut(c)),
                Sub(c.x_final, c.x_initial), Sub(c.y_final, c.y_initial))

\* What clipping_cohen_sutherland returns once the loop has ended.
CSResult(c) ==
    IF c.pc = "done" /\ c.accept /\ c.line_accepted
    THEN [status |-> "ok", accept |-> TRUE,
          line |-> <<<<c.x_initial, c.y_initial>>, <<c.x_final, c.y_final>>>>]
    ELSE IF c.pc = "done"
    THEN [status |-> "ok", accept |-> FALSE, line |-> <<None, None>>]
    ELSE [status |-> c.pc, accept |-> FALSE, line |-> <<None, None>>]

RECURSIVE CSLoop(_, _, _)
\* The while-loop, cut after n passes (pc stays "loop": it has not ended).
CSLoop(c, w, n) ==
    IF c.pc # "loop" \/ n = 0 THEN c ELSE CSLoop(CSStep(c, w), w, n - 1)

\* More passes than any run of the loop within the model's inputs takes.
MaxPasses == 12

\* x_min, y_min = c_initial and x_max, y_max = c_final
CSWindow(c_initial, c_final) == <<c_initial[1], c_initial[2], c_final[1], c_final[2]>>

CSRun(line, w) == CSResult(CSLoop(CSStart(line, w), w, MaxPasses))

clipping_cohen_sutherland(x_initial, y_initial, x_final, y_final, c_initial, c_final) ==
    CSRun(<<<<x_initial, y_initial>>, <<x_final, y_final>>>>, CSWindow(c_initial, c_final))

\* max(negarr) and min(posarr) over lists of up to three numbers
RECURSIVE MaxOf(_), MinOf(_)
MaxOf(arr) ==
    IF Len(arr) = 1 THEN arr[1]
    ELSE IF Len(arr) = 2 THEN (IF Gt(arr[2], arr[1]) THEN arr[2] ELSE arr[1])
    ELSE MaxOf(<<MaxOf(<<arr[1], arr[2]>>), arr[3]>>)

MinOf(arr) ==
    IF Len(arr) = 1 THEN arr[1]
    ELSE IF Len(arr) = 2 THEN (IF Lt(arr[2], arr[1]) THEN arr[2] ELSE arr[1])
    ELSE MinOf(<<MinOf(<<arr[1], arr[2]>>), arr[3]>>)

\* The entering parameters (negarr) of Liang-Barsky: 0, then for each axis
\* the line is not parallel to, r1 or r2 (r3 or r4) by the sign of p1 (p3).
LBNegArr(p1, p3, r1, r2, r3, r4) ==
    <<Zero>>
    \o (IF p1 = Zero THEN <<>> ELSE IF Lt(p1, Zero) THEN <<r1>> ELSE <<r2>>)
    \o (IF p3 = Zero THEN <<>> ELSE IF Lt(p3, Zero) THEN <<r3>> ELSE <<r4>>)

\* The leaving parameters (posarr) of Liang-Barsky.
LBPosArr(p1, p3, r1, r2, r3, r4) ==
    <<FromInt(1)>>
    \o (IF p1 = Zero THEN <<>> ELSE IF Lt(p1, Zero) THEN <<r2>> ELSE <<r1>>)
    \o (IF p3 = Zero THEN <<>> ELSE IF Lt(p3, Zero) THEN <<r4>> ELSE <<r3>>)

\* "Line is parallel to clipping window!": parallel to a boundary and outside it
LBParallelOutside(p1, p3, q1, q2, q3, q4) ==
    \/ p1 = Zero /\ Lt(q1, Zero)
    \/ Neg(p1) = Zero /\ Lt(q2, Zero)
    \/ p3 = Zero /\ Lt(q3, Zero)
    \/ Neg(p3) = Zero /\ Lt(q4, Zero)

\* The point of the line at parameter rn.
LBPoint(x1, y1, p2, p4, rn) == <<Add(x1, Mul(p2, rn)), Add(y1, Mul(p4, rn))>>

\* The end of clipping_liang_barsky, from rn1 = max(negarr), rn2 = min(posarr).
LBCut(x1, y1, p2, p4, rn1, rn2) ==
    IF Gt(rn1, rn2)
    THEN [status |-> "ok", accept |-> FALSE, line |-> <<None, None>>]
    ELSE [status |-> "ok", accept |-> TRUE,
          line |-> <<LBPoint(x1, y1, p2, p4, rn1), LBPoint(x1, y1, p2, p4, rn2)>>]

\* The quotients r1..r4 = q1 / p1 .. q4 / p4, where they are computed.
LBRatio(q, p) == IF p = Zero THEN Zero ELSE Div(q, p)

LBArrs(x1, y1, p1, p3, r1, r2, r3, r4) ==
    LBCut(x1, y1, Neg(p1), Neg(p3),
          MaxOf(LBNegArr(p1, p3, r1, r2, r3, r4)), MinOf(LBPosArr(p1, p3, r1, r2, r3, r4)))

\* clipping_liang_barsky from its p1, p3 (p2 = -p1, p4 = -p3) and q1..q4.
LBFrom(x1, y1, p1, p3, q1, q2, q3, q4) ==
    IF LBParallelOutside(p1, p3, q1, q2, q3, q4)
    THEN [status |-> "ok", accept |-> FALSE, line |-> <<None, None>>]
    ELSE LBArrs(x1, y1, p1, p3, LBRatio(q1, p1), LBRatio(q2, Neg(p1)),
                LBRatio(q3, p3), LBRatio(q4, Neg(p3)))

clipping_liang_barsky(x1, y1, x2, y2, xmin, ymin, xmax, ymax) ==
    LBFrom(x1, y1, Neg(Sub(x2, x1)), Neg(Sub(y2, y1)),
           Sub(x1, xmin), Sub(xmax, x1), Sub(y1, ymin), Sub(ymax, y1))

\* ---------------------------------------------------------- rasterization
\* A rasterizer returns the pixels it hands to draw_pixel, in order, and
\* whether it raised: status is "ok" or "error" (ZeroDivisionError).

RECURSIVE DDALoop(_, _, _, _, _, _), DDAPass(_, _, _, _, _, _)
\* the for-loop of draw_DDA_line with k passes to go
DDALoop(x, y, x_incr, y_incr, k, pixels) ==
    IF k = 0 THEN pixels
    ELSE DDAPass(Add(x, x_incr), Add(y, y_incr), x_incr, y_incr, k, pixels)

\* one pass of it, x and y already incremented
DDAPass(x, y, x_incr, y_incr, k, pixels) ==
    IF Len(pixels) > 0 /\ x = x /\ y = y
    THEN DDALoop(x, y, x_incr, y_incr, k - 1, Append(pixels, <<PyRound(x), PyRound(y)>>))
    ELSE pixels

\* steps of draw_DDA_line
DDASteps(dx, dy) == IF Gt(Abs(dx), Abs(dy)) THEN Abs(dx) ELSE Abs(dy)

\* x_incr = dx / steps raises ZeroDivisionError exactly when steps is 0
DDARaises(x1, y1, x2, y2) == DDASteps(Sub(x2, x1), Sub(y2, y1)) = Zero

\* draw_DDA_line from its dx, dy and steps
DDAFrom(x1, y1, dx, dy, steps) ==
    IF steps = Zero
    THEN [status |-> "error", pixels |-> <<>>]
    ELSE [status |-> "ok",
          pixels |-> DDALoop(x1, y1, Div(dx, steps), Div(dy, steps), PyRound(steps),
                             << <<PyRound(x1), PyRound(y1)>> >>)]

DDAOn(x1, y1, dx, dy) == DDAFrom(x1, y1, dx, dy, DDASteps(dx, dy))

draw_DDA_line(x1, y1, x2, y2) == DDAOn(x1, y1, Sub(x2, x1), Sub(y2, y1))

IAbs(i) == IF i < 0 THEN -i ELSE i

RECURSIVE BresenhamLoop(_, _, _, _, _, _, _, _, _, _)
\* either for-loop of draw_Bresenham_line with k passes to go; xDriven tells
\* which (dx > dy); inc0 is incE or incN
BresenhamLoop(x, y, decision_p, inc0, incNE, incrx, incry, xDriven, k, pixels) ==
    IF k = 0 THEN pixels
    ELSE LET x1 == IF decision_p <= 0 THEN (IF xDriven THEN x + incrx ELSE x) ELSE x + incrx
             y1 == IF decision_p <= 0 THEN (IF xDriven THEN y ELSE y + incry) ELSE y + incry
             p1 == IF decision_p <= 0 THEN decision_p + inc0 ELSE decision_p + incNE
         IN  BresenhamLoop(x1, y1, p1, inc0, incNE, incrx, incry, xDriven, k - 1,
                           Append(pixels, <<x1, y1>>))

\* draw_Bresenham_line with incry = 1 whatever the direction
draw_Bresenham_line_up(x_initial, y_initial, x_final, y_final) ==
    LET dx    == IAbs(x_final - x_initial)
        dy    == IAbs(y_final - y_initial)
        incrx == IF x_initial < x_final THEN 1 ELSE -1
    IN  IF dx > dy
        THEN BresenhamLoop(x_initial, y_initial, 2 * dy - dx, 2 * dy, 2 * (dy - dx),
                           incrx, 1, TRUE, dx, << <<x_initial, y_initial>> >>)
        ELSE BresenhamLoop(x_initial, y_initial, 2 * dx - dy, 2 * dx, 2 * (dx - dy),
                           incrx, 1, FALSE, dy, << <<x_initial, y_initial>> >>)

\* draw_Bresenham_line on int endpoints: the pixels, in order
draw_Bresenham_line(x_initial, y_initial, x_final, y_final) ==
    LET dx    == IAbs(x_final - x_initial)
        dy    == IAbs(y_final - y_initial)
        incrx == IF x_initial < x_final THEN 1 ELSE -1
        incry == IF y_initial < y_final THEN 1 ELSE -1
    IN  IF dx > dy
        THEN BresenhamLoop(x_initial, y_initial, 2 * dy - dx, 2 * dy, 2 * (dy - dx),
                           incrx, incry, TRUE, dx, << <<x_initial, y_initial>> >>)
        ELSE BresenhamLoop(x_initial, y_initial, 2 * dx - dy, 2 * dx, 2 * (dx - dy),
                           incrx, incry, FALSE, dy, << <<x_initial, y_initial>> >>)

\* the eight pixels from the sums and differences xc + x, xc - x, ...
CircumferencePoints(xc_px, xc_mx, yc_py, yc_my, xc_py, xc_my, yc_px, yc_mx) ==
    << <<xc_mx, yc_py>>, <<xc_px, yc_my>>, <<xc_px, yc_py>>, <<xc_mx, yc_my>>,
       <<xc_py, yc_px>>, <<xc_my, yc_px>>, <<xc_py, yc_mx>>, <<xc_my, yc_mx>> >>

\* plot_circumference_points with its last pixel a copy of the sixth
plot_circumference_points_seven(xc, x, yc, y) ==
    CircumferencePoints(Add(xc, x), Sub(xc, x), Add(yc, y), Sub(yc, y),
                        Add(xc, y), Sub(xc, y), Add(yc, x), Add(yc, x))

\* the eight pixels of plot_circumference_points, in the order drawn
plot_circumference_points(xc, x, yc, y) ==
    CircumferencePoints(Add(xc, x), Sub(xc, x), Add(yc, y), Sub(yc, y),
                        Add(xc, y), Sub(xc, y), Add(yc, x), Sub(yc, x))

RECURSIVE CircleLoop(_, _, _, _, _, _, _), CirclePass(_, _, _, _, _, _, _)
\* the while-loop with the test x <= y
CircleLoopLe(xc, yc, x, y, p, n, pixels) ==
    IF ~Le(x, y) THEN [pixels |-> pixels, passes |-> n]
    ELSE CirclePass(xc, yc, Add(x, FromInt(1)),
                    IF Lt(p, Zero) THEN y ELSE Sub(y, FromInt(1)),
                    Add(Add(p, Mul(FromInt(4), IF Lt(p, Zero) THEN x ELSE Sub(x, y))),
                        IF Lt(p, Zero) THEN FromInt(6) ELSE FromInt(10)),
                    n, pixels)

\* the while-loop of draw_Bresenham_circle; n counts its passes
CircleLoop(xc, yc, x, y, p, n, pixels) ==
    IF ~Lt(x, y) THEN [pixels |-> pixels, passes |-> n]
    ELSE CirclePass(xc, yc, Add(x, FromInt(1)),
                    IF Lt(p, Zero) THEN y ELSE Sub(y, FromInt(1)),
                    Add(Add(p, Mul(FromInt(4), IF Lt(p, Zero) THEN x ELSE Sub(x, y))),
                        IF Lt(p, Zero) THEN FromInt(6) ELSE FromInt(10)),
                    n, pixels)

\* one pass of it, x, y and p already updated
CirclePass(xc, yc, x, y, p, n, pixels) ==
    IF Len(pixels) > 0 /\ x = x /\ y = y /\ p = p
    THEN CircleLoop(xc, yc, x, y, p, n + 1, pixels \o plot_circumference_points(xc, x, yc, y))
    ELSE [pixels |-> pixels, passes |-> n]

\* draw_Bresenham_circle: the pixels drawn, in order, and the loop's passes
draw_Bresenham_circle(xc, yc, r) ==
    CircleLoop(xc, yc, Zero, r, Sub(FromInt(3), Mul(FromInt(2), r)), 0,
               plot_circumference_points(xc, Zero, yc, r))

\* ------------------------------------------------------- transformations

euclidean_distance(x1, y1, x2, y2) ==
    Sqrt(Add(Mul(Sub(x2, x1), Sub(x2, x1)), Mul(Sub(y2, y1), Sub(y2, y1))))

\* math.cos(math.radians(angle)) and math.sin(math.radians(angle)) for the
\* angles of the model, as binary64 values: cos(radians(90)) is
\* 6.123233995736766e-17 = 4967757600021511 * 2^-106, not 0.
RotateAngles == {0, 90}

CosDeg(angle) ==
    IF angle = 0 THEN FromInt(1)
    ELSE [s |-> 1, m |-> <<23559, 26152, 6296, 141>>, e |-> -106]

SinDeg(angle) == IF angle = 0 THEN Zero ELSE FromInt(1)

\* rotate without the translation back to the pivot
RotateAboutNoBack(x1, y1, x2, y2, c, s) ==
    << <<FromInt(PyRound(x1)), FromInt(PyRound(y1))>>,
       <<FromInt(PyRound(Sub(Mul(x2, c), Mul(y2, s)))),
         FromInt(PyRound(Add(Mul(x2, s), Mul(y2, c))))>> >>

\* rotate from x2, y2 already translated to the origin
RotateAbout(x1, y1, x2, y2, c, s) ==
    << <<FromInt(PyRound(x1)), FromInt(PyRound(y1))>>,
       <<FromInt(PyRound(Add(Sub(Mul(x2, c), Mul(y2, s)), x1))),
         FromInt(PyRound(Add(Add(Mul(x2, s), Mul(y2, c)), y1)))>> >>

rotate(line, angle) ==
    RotateAbout(line[1][1], line[1][2], Sub(line[2][1], line[1][1]),
                Sub(line[2][2], line[1][2]), CosDeg(angle), SinDeg(angle))

scale_line(line, scale_factor) ==
    LET x1 == line[1][1]
        y1 == line[1][2]
        dx == Sub(line[2][1], x1)
        dy == Sub(line[2][2], y1)
    IN  << <<x1, y1>>, <<Add(x1, Mul(dx, scale_factor)), Add(y1, Mul(dy, scale_factor))>> >>

\* a circle is <<center, radius>>
scale_circle(circle, scale_factor) == <<circle[1], Mul(circle[2], scale_factor)>>

\* the canvas is CanvasWidth x CanvasHeight; origin is its centre
CanvasWidth == 800
CanvasHeight == 600

origin == <<Dyadic(CanvasWidth, 1), Dyadic(CanvasHeight, 1)>>

cartesian_plan_coordinates(x, y) == <<Sub(x, origin[1]), Sub(origin[2], y)>>

get_pixel_coordinates(x, y) == <<Add(x, origin[1]), Sub(origin[2], y)>>

\* the reflection left in Cartesian coordinates, not converted back to pixels
ReflectPointCartesian(c, axis) ==
    <<IF axis = "X" THEN c[1] ELSE Neg(c[1]), IF axis = "Y" THEN c[2] ELSE Neg(c[2])>>

\* The reflection of the point with Cartesian coordinates c, axis one of
\* 'X', 'Y', 'XY'.
ReflectPoint(c, axis) ==
    get_pixel_coordinates(IF axis = "X" THEN c[1] ELSE Neg(c[1]),
                          IF axis = "Y" THEN c[2] ELSE Neg(c[2]))

\* A call with an axis other than 'X', 'Y', 'XY' falls off the end of the
\* function: it returns None.
reflect_line(line, axis) ==
    IF axis \in {"X", "Y", "XY"}
    THEN <<ReflectPoint(cartesian_plan_coordinates(line[1][1], line[1][2]), axis),
           ReflectPoint(cartesian_plan_coordinates(line[2][1], line[2][2]), axis)>>
    ELSE None

reflect_circle(circle, axis) ==
    IF axis \in {"X", "Y", "XY"}
    THEN <<ReflectPoint(cartesian_plan_coordinates(circle[1][1], circle[1][2]), axis), circle[2]>>
    ELSE None

\* ------------------------------------------------------------------ state

VARIABLES
    \* CartesianPlane (main.py)
    lines,                     \* self.lines: a sequence of lines
    circles,                   \* self.circles: a sequence of <<center, radius>>
    edges,                     \* self.edges: None or the pending first click
    drawing_line_dda,
    drawing_line_bresenham,
    drawing_circle_bresenham,
    drawing_cohen_clipping,
    drawing_liang_clipping,
    canvas,                    \* what the Tk canvas shows since the last delete("all")
    \* what the last handler did
    lastOp,                    \* the handler that ran last
    raised,                    \* it ended in an exception
    clip_window,               \* the window it called the clipper with, or None
    nTransforms,               \* rotations, scalings and reflections so far
    edges_tool,                \* the tool that was active when self.edges was recorded
    \* one run of the two clippers on one line and one window
    cs_line, cs_window,
    cs,                        \* the locals of clipping_cohen_sutherland
    cs_passes,                 \* passes of its while-loop so far
    cs_result, lb_result,      \* what the two clippers returned
    \* one call of a function
    fn_call, fn_ret

sceneVars == <<lines, circles, edges, drawing_line_dda, drawing_line_bresenham,
               drawing_circle_bresenham, drawing_cohen_clipping, drawing_liang_clipping,
               canvas, lastOp, raised, clip_window, nTransforms, edges_tool>>

clipVars == <<cs_line, cs_window, cs, cs_passes, cs_result, lb_result>>

fnVars == <<fn_call, fn_ret>>

vars == <<sceneVars, clipVars, fnVars>>

\* an int point as the program's numbers
Pt(x, y) == <<FromInt(x), FromInt(y)>>

\* no clipper run and no function call under way
Pending == [pending |-> TRUE]

ClipIdle ==
    /\ cs_line = None
    /\ cs_window = None
    /\ cs = None
    /\ cs_passes = 0
    /\ cs_result = Pending
    /\ lb_result = Pending

NoCall == [fn |-> "none", args |-> <<>>]

FnIdle == fn_call = NoCall /\ fn_ret = None

\* ------------------------------------------------------------- the scene
\* The canvas is kept as the primitives rasterized on it since the last
\* delete("all"): the lines and the circles, at the coordinates they were
\* drawn with.  The single pixels of draw_pixel (the clicked pixel, a circle's
\* centre), the clip rectangle and the axes are not kept; the red lines the
\* clippers draw with create_line are deleted by the same handler.  A handler
\* that raises stops where it raised: Tk reports the exception and the event
\* loop goes on with the state as it then is.

\* The pixels the model clicks on: (0, 0) and (MaxX, MaxY).
MaxX == 2
MaxY == 1

Pixels == {Pt(0, 0), Pt(MaxX, MaxY)}

\* what the dialogs of the model return
Deltas == {<<FromInt(1), FromInt(-1)>>}

Factors == {FromInt(-1), Zero, Dyadic(1, 1)}

Axes == {"X", "Y", "XY", "Z"}

\* caps on the scene's size and on the rotations, scalings and reflections
MaxLines == 1
MaxCircles == 1
MaxTransforms == 1

EmptyCanvas == [lines |-> {}, circles |-> {}]

SceneInit ==
    /\ lines = <<>>
    /\ circles = <<>>
    /\ edges = None
    /\ drawing_line_dda = FALSE
    /\ drawing_line_bresenham = FALSE
    /\ drawing_circle_bresenham = FALSE
    /\ drawing_cohen_clipping = FALSE
    /\ drawing_liang_clipping = FALSE
    /\ canvas = EmptyCanvas
    /\ lastOp = "init"
    /\ raised = FALSE
    /\ clip_window = None
    /\ nTransforms = 0
    /\ edges_tool = "none"

Range(seq) == {seq[i] : i \in 1..Len(seq)}

\* The index of the first line whose draw_DDA_line raises, or Len(ls) + 1.
FirstRaising(ls) ==
    LET bad == {i \in 1..Len(ls) : DDARaises(ls[i][1][1], ls[i][1][2], ls[i][2][1], ls[i][2][2])}
    IN  IF bad = {} THEN Len(ls) + 1 ELSE CHOOSE i \in bad : \A j \in bad : i <= j

\* What the two drawing loops leave on the canvas when the first raising
\* line is ls[k] (k = Len(ls) + 1: none raises).
DrawnUpTo(ls, cs_, withCircles, k) ==
    [raised |-> k <= Len(ls),
     canvas |-> [lines   |-> {ls[i] : i \in 1..(k - 1)},
                 circles |-> IF k > Len(ls) /\ withCircles THEN Range(cs_) ELSE {}]]

\* delete("all"), draw_axes() and the two drawing loops of a handler: every
\* line by draw_DDA_line, then (withCircles) every circle by
\* draw_Bresenham_circle.  A raising draw_DDA_line ends the handler there.
Redraw(ls, cs_, withCircles) == DrawnUpTo(ls, cs_, withCircles, FirstRaising(ls))

\* The state a handler starts from, as the record it hands on.
Here ==
    [lines |-> lines, circles |-> circles, edges |-> edges,
     cohen |-> drawing_cohen_clipping, liang |-> drawing_liang_clipping,
     canvas |-> canvas, raised |-> FALSE, clip_window |-> None]

\* The fields a handler leaves; op names it, n counts the transformations.
ApplyScene(r, op, n) ==
    /\ lines' = r.lines
    /\ circles' = r.circles
    /\ edges' = r.edges
    /\ drawing_cohen_clipping' = r.cohen
    /\ drawing_liang_clipping' = r.liang
    /\ canvas' = r.canvas
    /\ raised' = r.raised
    /\ clip_window' = r.clip_window
    /\ lastOp' = op
    /\ nTransforms' = n
    /\ UNCHANGED <<drawing_line_dda, drawing_line_bresenham, drawing_circle_bresenham,
                   clipVars, fnVars>>

\* The state a handler leaves.
Apply(r, op, n) == ApplyScene(r, op, n) /\ UNCHANGED edges_tool

\* The tool the elif chain of _on_click selects.
Tool ==
    IF drawing_line_dda THEN "dda"
    ELSE IF drawing_line_bresenham THEN "bresenham"
    ELSE IF drawing_circle_bresenham THEN "circle"
    ELSE IF drawing_cohen_clipping THEN "cohen"
    ELSE IF drawing_liang_clipping THEN "liang"
    ELSE "none"

\* the second click of a DDA line: draw_DDA_line raises before the append
ClickDDA(h, p) ==
    IF DDARaises(h.edges[1], h.edges[2], p[1], p[2])
    THEN [h EXCEPT !.raised = TRUE]
    ELSE [h EXCEPT !.lines = Append(@, <<h.edges, p>>),
                   !.canvas.lines = @ \cup {<<h.edges, p>>},
                   !.edges = None]

\* the second click of a Bresenham line
ClickBresenham(h, p) ==
    [h EXCEPT !.lines = Append(@, <<h.edges, p>>),
              !.canvas.lines = @ \cup {<<h.edges, p>>},
              !.edges = None]

\* the second click of a circle, c the circle
ClickCircleOf(h, c) ==
    [h EXCEPT !.circles = Append(@, c), !.canvas.circles = @ \cup {c}, !.edges = None]

ClickCircle(h, p) ==
    ClickCircleOf(h, <<h.edges, euclidean_distance(h.edges[1], h.edges[2], p[1], p[2])>>)

\* what the clipper returns for each line of self.lines
CohenResults(h, p) ==
    [i \in 1..Len(h.lines) |->
        clipping_cohen_sutherland(h.lines[i][1][1], h.lines[i][1][2],
                                  h.lines[i][2][1], h.lines[i][2][2], h.edges, p)]

LiangResults(h, p) ==
    [i \in 1..Len(h.lines) |->
        clipping_liang_barsky(h.lines[i][1][1], h.lines[i][1][2],
                              h.lines[i][2][1], h.lines[i][2][2],
                              h.edges[1], h.edges[2], p[1], p[2])]

\* clipped_lines: the lines of the accepted results, in order
AcceptedOf(acc) == [i \in 1..Len(acc) |-> acc[i].line]

Accepted(results) == AcceptedOf(SelectSeq(results, LAMBDA r : r.accept))

\* the end of a clip: the lists and flags are set, then the lines redrawn
\* (the circles are not); d is what the redraw leaves
ClipDrawn(h, tool, clipped, d) ==
    [h EXCEPT !.lines = clipped,
              !.edges = None,
              !.cohen = IF tool = "cohen" THEN FALSE ELSE @,
              !.liang = IF tool = "liang" THEN FALSE ELSE @,
              !.canvas = d.canvas,
              !.raised = d.raised]

ClipRedraw(h, p, tool, clipped) ==
    ClipDrawn(h, tool, clipped, Redraw(clipped, h.circles, FALSE))

\* the second click of a clip; a clipper that raises ends the handler before
\* anything is deleted.  clip_window is the window the clipper was called with.
ClipWith(h, p, tool, results) ==
    IF \E i \in 1..Len(results) : results[i].status # "ok"
    THEN [h EXCEPT !.raised = TRUE]
    ELSE ClipRedraw(h, p, tool, Accepted(results))

ClickClip(h, p, tool) ==
    ClipWith(IF Len(h.lines) > 0 THEN [h EXCEPT !.clip_window = CSWindow(h.edges, p)] ELSE h,
             p, tool, IF tool = "cohen" THEN CohenResults(h, p) ELSE LiangResults(h, p))

\* _on_click on pixel p, from the state h
Clicked(h, p) ==
    IF Tool = "none" THEN h
    ELSE IF h.edges = None THEN [h EXCEPT !.edges = p]
    ELSE IF Tool = "dda" THEN ClickDDA(h, p)
    ELSE IF Tool = "bresenham" THEN ClickBresenham(h, p)
    ELSE IF Tool = "circle" THEN ClickCircle(h, p)
    ELSE ClickClip(h, p, Tool)

\* what the click does: "click" marks a pixel or records the first point
ClickOp == IF Tool = "none" \/ edges = None THEN "click" ELSE Tool

\* The model draws no more than MaxLines lines and MaxCircles circles.
ClickAllowed ==
    \/ edges = None
    \/ Tool \in {"none", "cohen", "liang"}
    \/ Tool \in {"dda", "bresenham"} /\ Len(lines) < MaxLines
    \/ Tool = "circle" /\ Len(circles) < MaxCircles

on_click(p) ==
    /\ ClickAllowed
    /\ \E r \in {Clicked(Here, p)} : Apply(r, ClickOp, nTransforms)

\* The buttons of App: each tool's button switches it on or off, and
\* switching it on switches some of the others off.
toggle_dda ==
    /\ drawing_line_dda' = ~drawing_line_dda
    /\ drawing_line_bresenham' = IF drawing_line_dda THEN drawing_line_bresenham ELSE FALSE
    /\ UNCHANGED <<lines, circles, edges, drawing_circle_bresenham, drawing_cohen_clipping,
                   drawing_liang_clipping, canvas, lastOp, raised, clip_window, nTransforms,
                   edges_tool, clipVars, fnVars>>

toggle_cohen_clipping ==
    /\ drawing_cohen_clipping' = ~drawing_cohen_clipping
    /\ drawing_line_dda' = IF drawing_cohen_clipping THEN drawing_line_dda ELSE FALSE
    /\ drawing_line_bresenham' = IF drawing_cohen_clipping THEN drawing_line_bresenham ELSE FALSE
    /\ UNCHANGED <<lines, circles, edges, drawing_circle_bresenham, drawing_liang_clipping,
                   canvas, lastOp, raised, clip_window, nTransforms, edges_tool, clipVars,
                   fnVars>>

toggle_liang_clipping ==
    /\ drawing_liang_clipping' = ~drawing_liang_clipping
    /\ drawing_line_dda' = IF drawing_liang_clipping THEN drawing_line_dda ELSE FALSE
    /\ drawing_line_bresenham' = IF drawing_liang_clipping THEN drawing_line_bresenham ELSE FALSE
    /\ drawing_cohen_clipping' = IF drawing_liang_clipping THEN drawing_cohen_clipping ELSE FALSE
    /\ UNCHANGED <<lines, circles, edges, drawing_circle_bresenham, canvas, lastOp, raised,
                   clip_window, nTransforms, edges_tool, clipVars, fnVars>>

toggle_bresenham ==
    /\ drawing_line_bresenham' = ~drawing_line_bresenham
    /\ drawing_line_dda' = IF drawing_line_bresenham THEN drawing_line_dda ELSE FALSE
    /\ UNCHANGED <<lines, circles, edges, drawing_circle_bresenham, drawing_cohen_clipping,
                   drawing_liang_clipping, canvas, lastOp, raised, clip_window, nTransforms,
                   edges_tool, clipVars, fnVars>>

toggle_bresenham_circle ==
    /\ drawing_circle_bresenham' = ~drawing_circle_bresenham
    /\ drawing_line_dda' = IF drawing_circle_bresenham THEN drawing_line_dda ELSE FALSE
    /\ drawing_line_bresenham' = IF drawing_circle_bresenham THEN drawing_line_bresenham ELSE FALSE
    /\ UNCHANGED <<lines, circles, edges, drawing_cohen_clipping, drawing_liang_clipping,
                   canvas, lastOp, raised, clip_window, nTransforms, edges_tool, clipVars,
                   fnVars>>

clear_screen ==
    /\ lines' = <<>>
    /\ circles' = <<>>
    /\ canvas' = EmptyCanvas
    /\ lastOp' = "clear"
    /\ raised' = FALSE
    /\ clip_window' = None
    /\ UNCHANGED <<edges, drawing_line_dda, drawing_line_bresenham, drawing_circle_bresenham,
                   drawing_cohen_clipping, drawing_liang_clipping, nTransforms,
                   edges_tool, clipVars, fnVars>>

\* The lists a transformation computes, primitive by primitive.
TranslatedLines(ls, tx, ty) ==
    [i \in 1..Len(ls) |-> << <<Add(ls[i][1][1], tx), Add(ls[i][1][2], ty)>>,
                              <<Add(ls[i][2][1], tx), Add(ls[i][2][2], ty)>> >>]

TranslatedCircles(cs_, tx, ty) ==
    [i \in 1..Len(cs_) |-> << <<Add(cs_[i][1][1], tx), Add(cs_[i][1][2], ty)>>, cs_[i][2]>>]

\* translate draws the translated primitives; self.lines and self.circles are
\* neither assigned nor changed in place.
translate(tx, ty, ls, cs_) ==
    Redraw(TranslatedLines(ls, tx, ty), TranslatedCircles(cs_, tx, ty), TRUE)

translate_points(delta_x, delta_y) ==
    \E d \in {translate(delta_x, delta_y, lines, circles)} :
        Apply([Here EXCEPT !.canvas = d.canvas, !.raised = d.raised], "translate", nTransforms)

\* a handler that replaces the lists by ls and cs_ and redraws them
Replaced(ls, cs_, d) ==
    [Here EXCEPT !.lines = ls, !.circles = cs_, !.canvas = d.canvas, !.raised = d.raised]

ReplaceAndRedraw(ls, cs_) == Replaced(ls, cs_, Redraw(ls, cs_, TRUE))

rotate_lines(angle) ==
    /\ nTransforms < MaxTransforms
    /\ \E r \in {ReplaceAndRedraw([i \in 1..Len(lines) |-> rotate(lines[i], angle)], circles)} :
           Apply(r, "rotate", nTransforms + 1)

scale(factor) ==
    /\ nTransforms < MaxTransforms
    /\ \E r \in {ReplaceAndRedraw([i \in 1..Len(lines) |-> scale_line(lines[i], factor)],
                                   [i \in 1..Len(circles) |-> scale_circle(circles[i], factor)])} :
           Apply(r, "scale", nTransforms + 1)

reflect(axis) ==
    /\ nTransforms < MaxTransforms
    /\ \E r \in {ReplaceAndRedraw([i \in 1..Len(lines) |-> reflect_line(lines[i], axis)],
                                   [i \in 1..Len(circles) |-> reflect_circle(circles[i], axis)])} :
           Apply(r, "reflect", nTransforms + 1)

\* The dialogs of App: each asks for a value and calls the transformation;
\* reflect_popup calls it for 'X', 'Y' and 'XY' only.
translate_popup == \E d \in Deltas : translate_points(d[1], d[2])

scale_popup == \E factor \in Factors : scale(factor)

rotate_popup == \E angle \in RotateAngles : rotate_lines(angle)

reflect_popup ==
    \E axis \in Axes :
        IF axis \in {"X", "Y", "XY"} THEN reflect(axis) ELSE UNCHANGED vars

Init == SceneInit /\ ClipIdle /\ FnIdle

Next ==
    \/ toggle_dda
    \/ toggle_bresenham
    \/ toggle_bresenham_circle
    \/ toggle_cohen_clipping
    \/ toggle_liang_clipping
    \/ \E p \in Pixels : on_click(p)
    \/ translate_popup
    \/ rotate_popup
    \/ scale_popup
    \/ reflect_popup
    \/ clear_screen

Spec == Init /\ [][Next]_vars

\* -------------------------------------------------- the tools and clicks
\* The buttons and the clicks alone, with the tool that was active at the
\* first click kept beside self.edges.

\* _on_click on pixel p; edges_tool follows self.edges: set when the first
\* point is recorded, reset when self.edges is set back to None
on_click_recorded(p) ==
    /\ ClickAllowed
    /\ \E r \in {Clicked(Here, p)} : ApplyScene(r, ClickOp, nTransforms)
    /\ edges_tool' = IF edges' = None THEN "none"
                     ELSE IF edges = None THEN Tool
                     ELSE edges_tool

ToolsNext ==
    \/ toggle_dda
    \/ toggle_bresenham
    \/ toggle_bresenham_circle
    \/ toggle_cohen_clipping
    \/ toggle_liang_clipping
    \/ \E p \in Pixels : on_click_recorded(p)
    \/ clear_screen

SpecTools == Init /\ [][ToolsNext]_vars

\* ----------------------------------------------------- the clippers alone
\* One line with endpoints in ClipPoints and one window with corners in
\* ClipPoints, in either order.  A run calls clipping_cohen_sutherland, whose
\* loop runs pass by pass, and then clipping_liang_barsky on the same line and
\* window.

ClipMid == 15
ClipMax == 22

ClipCoords == {0, ClipMid, ClipMax}

ClipPoints == {Pt(x, y) : x \in ClipCoords, y \in ClipCoords}

ClipInit ==
    /\ \E p1 \in ClipPoints, p2 \in ClipPoints : cs_line = <<p1, p2>>
    /\ \E c1 \in ClipPoints, c2 \in ClipPoints : cs_window = <<c1[1], c1[2], c2[1], c2[2]>>
    /\ cs = CSStart(cs_line, cs_window)
    /\ cs_passes = 0
    /\ cs_result = Pending
    /\ lb_result = Pending
    /\ SceneInit
    /\ FnIdle

\* one pass of the while-loop
CSPass ==
    /\ cs.pc = "loop"
    /\ cs' = CSStep(cs, cs_window)
    /\ cs_passes' = cs_passes + 1
    /\ UNCHANGED <<cs_line, cs_window, cs_result, lb_result, sceneVars, fnVars>>

\* the code after the loop
CSReturn ==
    /\ cs.pc # "loop"
    /\ cs_result = Pending
    /\ cs_result' = CSResult(cs)
    /\ UNCHANGED <<cs_line, cs_window, cs, cs_passes, lb_result, sceneVars, fnVars>>

LBCall ==
    /\ cs_result # Pending
    /\ lb_result = Pending
    /\ lb_result' = clipping_liang_barsky(cs_line[1][1], cs_line[1][2], cs_line[2][1], cs_line[2][2],
                                          cs_window[1], cs_window[2], cs_window[3], cs_window[4])
    /\ UNCHANGED <<cs_line, cs_window, cs, cs_passes, cs_result, sceneVars, fnVars>>

ClipNext == CSPass \/ CSReturn \/ LBCall

SpecClip == ClipInit /\ [][ClipNext]_vars

\* x_min <= x_max and y_min <= y_max
Normalized(w) == Le(w[1], w[3]) /\ Le(w[2], w[4])

\* ---------------------------------------------------- the functions alone
\* One call of one function of rasterization.py or transformation2d.py on
\* arguments drawn from FnPoints, FnRadii and Axes.

FnMax == 2

FnPoints == {Pt(x, y) : x \in 0..FnMax, y \in 0..FnMax}

FnRadii == {FromInt(r) : r \in 0..FnMax}

FnInit == SceneInit /\ ClipIdle /\ FnIdle

call_draw_DDA_line ==
    /\ fn_call = NoCall
    /\ \E p1 \in FnPoints, p2 \in FnPoints :
           /\ fn_call' = [fn |-> "draw_DDA_line", args |-> <<p1[1], p1[2], p2[1], p2[2]>>]
           /\ fn_ret' = draw_DDA_line(p1[1], p1[2], p2[1], p2[2])
    /\ UNCHANGED <<sceneVars, clipVars>>

call_reflect_line ==
    /\ fn_call = NoCall
    /\ \E p1 \in FnPoints, p2 \in FnPoints, axis \in Axes :
           /\ fn_call' = [fn |-> "reflect_line", args |-> <<<<p1, p2>>, axis>>]
           /\ fn_ret' = reflect_line(<<p1, p2>>, axis)
    /\ UNCHANGED <<sceneVars, clipVars>>

call_reflect_circle ==
    /\ fn_call = NoCall
    /\ \E c \in FnPoints, r \in FnRadii, axis \in Axes :
           /\ fn_call' = [fn |-> "reflect_circle", args |-> <<<<c, r>>, axis>>]
           /\ fn_ret' = reflect_circle(<<c, r>>, axis)
    /\ UNCHANGED <<sceneVars, clipVars>>

\* The lines rotate is called on: clicked lines, the same lines scaled by
\* 1/2 as scale stores them, and a line as clipping_liang_barsky stores it.
FnClippedLine ==
    clipping_liang_barsky(FromInt(0), FromInt(ClipMid), FromInt(ClipMax), FromInt(ClipMid),
                          FromInt(ClipMid), FromInt(0), FromInt(ClipMax), FromInt(ClipMax)).line

FnLines ==
    {scale_line(<<p1, p2>>, f) : p1 \in FnPoints, p2 \in FnPoints, f \in {FromInt(1), Dyadic(1, 1)}}
        \cup {FnClippedLine}

call_rotate ==
    /\ fn_call = NoCall
    /\ \E line \in FnLines, angle \in RotateAngles :
           /\ fn_call' = [fn |-> "rotate", args |-> <<line, angle>>]
           /\ fn_ret' = rotate(line, angle)
    /\ UNCHANGED <<sceneVars, clipVars>>

\* reflect twice on the same axis, as two uses of the Reflect dialog do:
\* fn_ret is <<the first result, the second result>>
call_reflect_line_twice ==
    /\ fn_call = NoCall
    /\ \E line \in FnLines, axis \in {"X", "Y", "XY"} :
           /\ fn_call' = [fn |-> "reflect_line_twice", args |-> <<line, axis>>]
           /\ \E once \in {reflect_line(line, axis)} :
                  fn_ret' = <<once, reflect_line(once, axis)>>
    /\ UNCHANGED <<sceneVars, clipVars>>

call_reflect_circle_twice ==
    /\ fn_call = NoCall
    /\ \E c \in FnPoints, r \in FnRadii \cup {Sqrt(FromInt(2))}, axis \in {"X", "Y", "XY"} :
           /\ fn_call' = [fn |-> "reflect_circle_twice", args |-> <<<<c, r>>, axis>>]
           /\ \E once \in {reflect_circle(<<c, r>>, axis)} :
                  fn_ret' = <<once, reflect_circle(once, axis)>>
    /\ UNCHANGED <<sceneVars, clipVars>>

\* the radii draw_Bresenham_circle is called with: -CircleMin .. CircleMax
CircleMin == 2
CircleMax == 6

call_draw_Bresenham_circle ==
    /\ fn_call = NoCall
    /\ \E c \in FnPoints, r \in (0 - CircleMin)..CircleMax :
           /\ fn_call' = [fn |-> "draw_Bresenham_circle", args |-> <<c[1], c[2], FromInt(r)>>]
           /\ fn_ret' = draw_Bresenham_circle(c[1], c[2], FromInt(r))
    /\ UNCHANGED <<sceneVars, clipVars>>

\* the endpoints draw_Bresenham_line is called with: 0..BresMax squared
BresMax == 4

call_draw_Bresenham_line ==
    /\ fn_call = NoCall
    /\ \E x1 \in 0..BresMax, y1 \in 0..BresMax, x2 \in 0..BresMax, y2 \in 0..BresMax :
           /\ fn_call' = [fn |-> "draw_Bresenham_line", args |-> <<x1, y1, x2, y2>>]
           /\ fn_ret' = [status |-> "ok", pixels |-> draw_Bresenham_line(x1, y1, x2, y2)]
    /\ UNCHANGED <<sceneVars, clipVars>>

FnNext ==
    \/ call_draw_Bresenham_line
    \/ call_draw_Bresenham_circle
    \/ call_draw_DDA_line
    \/ call_reflect_line
    \/ call_reflect_circle
    \/ call_rotate
    \/ call_reflect_line_twice
    \/ call_reflect_circle_twice

SpecFn == FnInit /\ [][FnNext]_vars

\* ------------------------------------------------------------- properties

\* both clippers have returned
ClipDone == cs_result # Pending /\ lb_result # Pending

\* both endpoints of the line l are in the window w
LineInWindow(l, w) == InWindow(l[1][1], l[1][2], w) /\ InWindow(l[2][1], l[2][2], w)

\* C1: for every line with integer endpoints and every normalized window,
\* clipping_cohen_sutherland and clipping_liang_barsky return the same
\* accept flag, and when both accept, the same two endpoints (the values are
\* compared exactly).
C1_ClippersAgree ==
    (ClipDone /\ Normalized(cs_window)) =>
        /\ cs_result.accept = lb_result.accept
        /\ (cs_result.accept /\ lb_result.accept) => cs_result.line = lb_result.line

\* C2: when both endpoints have outcode 0, clipping_cohen_sutherland accepts
\* the line and returns its two endpoints unchanged.
C2_TrivialAccept ==
    (cs_result # Pending /\ CSStart(cs_line, cs_window).code1 = 0
                        /\ CSStart(cs_line, cs_window).code2 = 0) =>
        (cs_result.accept /\ cs_result.line = cs_line)

\* C3: for a normalized window, whenever either clipper returns accept = True
\* both returned endpoints lie in the window, x_min <= x <= x_max and
\* y_min <= y <= y_max.
C3_ClippedInside ==
    Normalized(cs_window) =>
        /\ (cs_result # Pending /\ cs_result.accept) => LineInWindow(cs_result.line, cs_window)
        /\ (lb_result # Pending /\ lb_result.accept) => LineInWindow(lb_result.line, cs_window)

\* the handlers that change the scene
MutatingOps ==
    {"dda", "bresenham", "circle", "cohen", "liang", "translate", "rotate", "scale",
     "reflect", "clear"}

\* C4: after every mutating scene operation that completed, the primitives
\* drawn on the canvas are exactly the stored lines and circles, each at its
\* stored coordinates.
C4_CanvasIsScene ==
    (lastOp \in MutatingOps /\ ~raised) =>
        (canvas.lines = Range(lines) /\ canvas.circles = Range(circles))

\* C5: draw_DDA_line called with identical endpoints does not divide by zero
\* and emits exactly one pixel, the rounded start point.
C5_DDADegenerate ==
    (fn_call.fn = "draw_DDA_line" /\ fn_call.args[1] = fn_call.args[3]
                                  /\ fn_call.args[2] = fn_call.args[4]) =>
        /\ fn_ret.status = "ok"
        /\ fn_ret.pixels = << <<PyRound(fn_call.args[1]), PyRound(fn_call.args[2])>> >>

\* C6: no scene operation raises an error, and the stored lists hold
\* well-formed lines and circles.
C6_NoError ==
    /\ ~raised
    /\ \A i \in 1..Len(lines) : lines[i] # None
    /\ \A i \in 1..Len(circles) : circles[i] # None

\* C7: every stored circle has radius >= 0.
C7_RadiusNonNegative == \A i \in 1..Len(circles) : Sign(circles[i][2]) >= 0

\* C8: translate_points(dx, dy) leaves the translated primitives in the
\* stored lists: dx and dy added to every line endpoint and every circle
\* centre, every radius unchanged.
C8_TranslateStores ==
    [][\A d \in Deltas :
          translate_points(d[1], d[2]) =>
              /\ lines' = TranslatedLines(lines, d[1], d[2])
              /\ circles' = TranslatedCircles(circles, d[1], d[2])]_vars

\* C9: the window a clip calls the clipper with is normalized,
\* x_min <= x_max and y_min <= y_max, whatever the order of the two clicks.
C9_WindowNormalized == clip_window # None => Normalized(clip_window)

\* C10: reflect_line and reflect_circle called with an axis other than 'X',
\* 'Y', 'XY' return the primitive they were given, unchanged.
C10_ReflectOtherAxis ==
    (fn_call.fn \in {"reflect_line", "reflect_circle"}
        /\ fn_call.args[2] \notin {"X", "Y", "XY"}) =>
        fn_ret = fn_call.args[1]

\* every coordinate of the line l is an integer
IsIntLine(l) == IsInt(l[1][1]) /\ IsInt(l[1][2]) /\ IsInt(l[2][1]) /\ IsInt(l[2][2])

\* the point p with each coordinate rounded as round() does
RoundedPoint(p) == <<FromInt(PyRound(p[1])), FromInt(PyRound(p[2]))>>

\* C11 as claimed: for every line that can be stored, non-integer ones
\* included, rotate(line, 0) returns the line unchanged, and for every angle
\* the returned start point is the input start point.
C11_RotateIdentityAnyLine ==
    fn_call.fn = "rotate" =>
        /\ fn_ret[1] = fn_call.args[1][1]
        /\ fn_call.args[2] = 0 => fn_ret = fn_call.args[1]

\* C11: for every angle rotate returns the input start point with each
\* coordinate rounded to the nearest integer; on a line with integer
\* coordinates the start point is therefore unchanged, and rotate(line, 0)
\* returns the line unchanged.
C11_RotateIdentity ==
    fn_call.fn = "rotate" =>
        /\ fn_ret[1] = RoundedPoint(fn_call.args[1][1])
        /\ IsIntLine(fn_call.args[1]) =>
               /\ fn_ret[1] = fn_call.args[1][1]
               /\ fn_call.args[2] = 0 => fn_ret = fn_call.args[1]

\* a rotation by 0 of a clicked line that is not a single point and does
\* not start at the origin pixel
C11_Witness ==
    /\ fn_call.fn = "rotate"
    /\ fn_call.args[2] = 0
    /\ IsIntLine(fn_call.args[1])
    /\ fn_call.args[1][1] = Pt(1, 2)
    /\ fn_call.args[1][2] = Pt(2, 0)
    /\ fn_ret = fn_call.args[1]

\* C12 as claimed: for each axis of 'X', 'Y', 'XY', every line and every
\* circle, reflecting twice on the same axis returns the original primitive,
\* and each reflection leaves the radius unchanged.
C12_DoubleReflectionAnyLine ==
    /\ fn_call.fn = "reflect_line_twice" => fn_ret[2] = fn_call.args[1]
    /\ fn_call.fn = "reflect_circle_twice" =>
           /\ fn_ret[2] = fn_call.args[1]
           /\ fn_ret[1][2] = fn_call.args[1][2]

\* C12: for each axis of 'X', 'Y', 'XY', reflecting twice on the same axis
\* returns the original line when its coordinates are integers, and the
\* original circle when its centre is a pixel; each reflection leaves the
\* radius unchanged.
C12_DoubleReflection ==
    /\ (fn_call.fn = "reflect_line_twice" /\ IsIntLine(fn_call.args[1])) =>
           fn_ret[2] = fn_call.args[1]
    /\ fn_call.fn = "reflect_circle_twice" =>
           /\ fn_ret[2] = fn_call.args[1]
           /\ fn_ret[1][2] = fn_call.args[1][2]
           /\ fn_ret[2][2] = fn_call.args[1][2]

\* a clicked line reflected twice on Y: the first reflection moved it
C12_Witness ==
    /\ fn_call.fn = "reflect_line_twice"
    /\ fn_call.args[2] = "Y"
    /\ fn_call.args[1] = <<Pt(0, 1), Pt(2, 0)>>
    /\ fn_ret[1] # fn_call.args[1]
    /\ fn_ret[2] = fn_call.args[1]

\* the eight images of the offset <<a, b>> about the centre <<xc, yc>>
Octants(xc, yc, a, b) ==
    {<<Add(xc, a), Add(yc, b)>>, <<Sub(xc, a), Add(yc, b)>>,
     <<Add(xc, a), Sub(yc, b)>>, <<Sub(xc, a), Sub(yc, b)>>,
     <<Add(xc, b), Add(yc, a)>>, <<Sub(xc, b), Add(yc, a)>>,
     <<Add(xc, b), Sub(yc, a)>>, <<Sub(xc, b), Sub(yc, a)>>}

\* the set of pixels is closed under the eight octant reflections
OctantClosed(xc, yc, pixels) ==
    \A q \in pixels : Octants(xc, yc, Sub(q[1], xc), Sub(q[2], yc)) \subseteq pixels

\* C13: for an integer centre and an integer radius r >= 0 the set of pixels
\* draw_Bresenham_circle emits is closed under the 8 octant reflections about
\* the centre.
C13_CircleSymmetric ==
    (fn_call.fn = "draw_Bresenham_circle" /\ Sign(fn_call.args[3]) >= 0) =>
        OctantClosed(fn_call.args[1], fn_call.args[2], Range(fn_ret.pixels))

\* a circle of radius 3 about (1, 2): 16 distinct pixels, (1 + 3, 2 + 1) and
\* (1 - 1, 2 - 3) among them
C13_Witness ==
    /\ fn_call.fn = "draw_Bresenham_circle"
    /\ fn_call.args = <<FromInt(1), FromInt(2), FromInt(3)>>
    /\ Cardinality(Range(fn_ret.pixels)) = 16
    /\ {Pt(4, 3), Pt(0, -1)} \subseteq Range(fn_ret.pixels)

\* C14: draw_Bresenham_circle ends without error for every integer radius:
\* for r <= 0 it plots the initial point and its loop runs 0 times, for
\* r = 1 exactly once, and for r >= 0 at most r times.
C14_CircleTerminates ==
    fn_call.fn = "draw_Bresenham_circle" =>
        /\ fn_ret.passes >= 0
        /\ Len(fn_ret.pixels) = 8 * (fn_ret.passes + 1)
        /\ Sign(fn_call.args[3]) <= 0 => fn_ret.passes = 0
        /\ fn_call.args[3] = FromInt(1) => fn_ret.passes = 1
        /\ Sign(fn_call.args[3]) >= 0 => fn_ret.passes <= ToInt(fn_call.args[3])

\* radius 1: one pass of the loop; a larger radius: several
C14_Witness ==
    /\ fn_call.fn = "draw_Bresenham_circle"
    /\ fn_call.args[3] = FromInt(1)
    /\ fn_ret.passes = 1
    /\ Len(fn_ret.pixels) = 16

\* -1, 0 or 1: the direction from a to b
Toward(a, b) == IF a < b THEN 1 ELSE IF a > b THEN -1 ELSE 0

\* From pixel q to pixel r the driving coordinate (index d) moves by exactly
\* one toward p2 and the other (index o) by nothing or by one toward p2.
BresStep(q, r, p1, p2, d, o) ==
    /\ r[d] - q[d] = Toward(p1[d], p2[d])
    /\ r[d] # q[d]
    /\ r[o] - q[o] \in {0, Toward(p1[o], p2[o])}

\* the pixels px of the line from p1 to p2, d the driving coordinate
BresLineOk(px, p1, p2, d) ==
    /\ Len(px) = IAbs(p2[d] - p1[d]) + 1
    /\ IAbs(p2[d] - p1[d]) >= IAbs(p2[3 - d] - p1[3 - d])
    /\ px[1] = p1
    /\ px[Len(px)] = p2
    /\ \A i \in 1..(Len(px) - 1) : BresStep(px[i], px[i + 1], p1, p2, d, 3 - d)

\* C15: for integer endpoints p1, p2 draw_Bresenham_line emits
\* max(|dx|, |dy|) + 1 pixels, the first p1 and the last p2, each next pixel
\* one step along the driving axis and none or one along the other, toward
\* p2; for p1 = p2 it emits the single pixel p1.
C15_BresenhamLine ==
    fn_call.fn = "draw_Bresenham_line" =>
        /\ BresLineOk(fn_ret.pixels, <<fn_call.args[1], fn_call.args[2]>>,
                      <<fn_call.args[3], fn_call.args[4]>>,
                      IF IAbs(fn_call.args[3] - fn_call.args[1])
                             > IAbs(fn_call.args[4] - fn_call.args[2]) THEN 1 ELSE 2)
        /\ (fn_call.args[1] = fn_call.args[3] /\ fn_call.args[2] = fn_call.args[4]) =>
               fn_ret.pixels = << <<fn_call.args[1], fn_call.args[2]>> >>

\* the line of the spec's example, dx = 4 and dy = 2, drawn downwards and
\* to the left: five pixels by the decision-parameter recurrence
C15_Witness ==
    /\ fn_call.fn = "draw_Bresenham_line"
    /\ fn_call.args = <<4, 2, 0, 0>>
    /\ fn_ret.pixels = << <<4, 2>>, <<3, 2>>, <<2, 1>>, <<1, 1>>, <<0, 0>> >>

\* the pass the loop is about to make computes an intersection
CSIntersects(c) ==
    /\ c.pc = "loop"
    /\ ~((c.code1 = 0 /\ c.code2 = 0) \/ BitAnd(c.code1, c.code2) # 0)

\* C16: no pass of the Cohen-Sutherland loop evaluates an intersection
\* formula with a zero denominator: y_final # y_initial when the TOP or
\* BOTTOM formula is evaluated, x_final # x_initial when the RIGHT or LEFT
\* formula is.
C16_NoZeroDenominator ==
    /\ cs.pc # "error"
    /\ CSIntersects(cs) =>
           IF CSHorizontal(CSBoundary(CSCodeOut(cs)))
           THEN cs.y_final # cs.y_initial
           ELSE cs.x_final # cs.x_initial

\* an exactly horizontal line about to be cut by the RIGHT or LEFT formula
\* in the second pass
C16_Witness ==
    /\ CSIntersects(cs)
    /\ cs_passes = 1
    /\ cs.y_initial = cs.y_final
    /\ cs.x_initial # cs.x_final
    /\ ~CSHorizontal(CSBoundary(CSCodeOut(cs)))

\* C17: the Cohen-Sutherland loop leaves with its decision after a bounded
\* number of passes: it never raises, and it is still running after at most
\* 4 passes (4 intersections, the fifth pass decides).
C17_LoopTerminates ==
    /\ cs.pc \in {"loop", "done"}
    /\ cs_passes <= 5
    /\ cs.pc = "loop" => cs_passes <= 4

\* a run that has made three passes and returned
C17_Witness ==
    /\ cs.pc = "done"
    /\ cs_passes >= 3
    /\ cs_result # Pending

\* the number of bits set in a region code
Bits(code) ==
    (IF HasBit(code, LEFT) THEN 1 ELSE 0) + (IF HasBit(code, RIGHT) THEN 1 ELSE 0)
    + (IF HasBit(code, BOTTOM) THEN 1 ELSE 0) + (IF HasBit(code, TOP) THEN 1 ELSE 0)

\* the step is a pass of the loop that replaces an endpoint
CSReplaces == CSIntersects(cs) /\ cs_passes' = cs_passes + 1 /\ cs'.pc = "loop"

\* C18 as claimed: each pass that replaces an endpoint by an intersection
\* strictly reduces the number of bits set in the two region codes together.
C18_BitsStrictlyReduced ==
    [][CSReplaces => Bits(cs'.code1) + Bits(cs'.code2) < Bits(cs.code1) + Bits(cs.code2)]_vars

\* C18: each pass that replaces an endpoint clears, in that endpoint's
\* region code, the bit of the boundary it cut at; for a normalized window
\* the number of bits set in the two codes together does not grow.
C18_BitCleared ==
    [][CSReplaces =>
          /\ ~HasBit(IF CSReplaced(cs) = 1 THEN cs'.code1 ELSE cs'.code2,
                     CSBoundary(CSCodeOut(cs)))
          /\ Normalized(cs_window) =>
                 Bits(cs'.code1) + Bits(cs'.code2) <= Bits(cs.code1) + Bits(cs.code2)]_vars

\* after the first pass on a normalized window the replaced endpoint has
\* another region code and the two codes have as many bits as before
C18_Witness ==
    /\ cs.pc = "loop"
    /\ cs_passes = 1
    /\ Normalized(cs_window)
    /\ cs.code1 # CSStart(cs_line, cs_window).code1
    /\ Bits(cs.code1) + Bits(cs.code2)
           = Bits(CSStart(cs_line, cs_window).code1) + Bits(CSStart(cs_line, cs_window).code2)

\* C19: whatever the order of button presses and clicks, the second click
\* of a tool uses a first point that was recorded while that same tool was
\* the active one.
C19_EdgesOfSameTool ==
    [][\A p \in Pixels :
          (on_click_recorded(p) /\ edges # None /\ Tool # "none") => edges_tool = Tool]_vars

====
